---- MODULE Spec2Model ----
(***************************************************************************)
(* Leader-side replication core of async-raft (core/replication.rs):       *)
(* the dispatcher of replication events, the quorum calculator and the     *)
(* snapshot-freshness predicate.                                           *)
(*                                                                         *)
(* Option<T> is modelled as a set with at most one element: {} is None and *)
(* {x} is Some(x).                                                         *)
(***************************************************************************)
EXTENDS Integers, Sequences, FiniteSets, TLC

\* ------------------------------------------------------------------ bounds
\* Largest log index the model appends or reports.
MaxIndex == 2
\* Largest leader term the model starts a leader in.
MaxTerm == 2
\* Longest entries list handed to the quorum calculator on its own.
MaxLen == 3
\* Width in bits of the machine word the model gives to u64 arithmetic.
WordBits == 3

Indexes == 0..MaxIndex
Terms == 1..MaxTerm
\* Number of values of the modelled machine word (2^64 in the build).
WordSize == 2 ^ WordBits
Words == 0..(WordSize - 1)

\* Node ids of the cluster; LeaderId is self.core.id.
NodeIds == {1, 2, 3}
LeaderId == 1
Peers == NodeIds \ {LeaderId}

VARIABLES
  \* ---- RaftCore (self.core)
  current_term,
  voted_for,          \* Option<NodeId>
  current_leader,     \* Option<NodeId>; {} after UpdateCurrentLeader::Unknown
  target_state,       \* "Leader", "Follower", "Shutdown" or "Panicked"
  last_log_index,
  last_log_term,
  commit_index,
  membership,         \* [members, members_after_consensus (Option)]
  snapshot_state,     \* Option<SnapshotState>: {} or {"Snapshotting"}
  \* ---- LeaderState
  nodes,              \* voters table: NodeId -> ReplicationState
  non_voters,         \* non-voters table: NodeId -> NonVoterReplicationState
  consensus_state,
  awaiting_committed, \* sequence of entry indexes of the pending requests
  leader_metrics,     \* leader_metrics.replication: NodeId -> matched LogId
  \* ---- storage collaborator
  hard_state,         \* the saved [current_term, voted_for]
  current_snapshot,   \* Option of the index of the current snapshot
  \* ---- channels and tasks
  repl_tx,            \* per worker, the last RaftEvent sent on replstream.repl_tx (Option)
  snapshot_waiters,   \* NeedsSnapshot senders held by tasks awaiting the build
  \* ---- history
  tx_sends,           \* per non-voter, the number of sends on its stored tx
  snapshot_builds,    \* number of snapshot builds running
  completed,          \* entry indexes given to client_request_post_commit
  \* ---- quorum calculator on its own (calculate_new_commit_index)
  entries,          \* the argument `entries`, a sequence of <<index, term>>
  current_commit,   \* the argument `current_commit`
  leader_term,      \* the argument `leader_term`
  new_val,          \* the local `new_val` (Option), set once the call ran
  calc_output,      \* the value returned (Option), set once the call ran
  \* ---- snapshot-freshness predicate on its own
  arg_snapshot_last_index,
  arg_last_log_index,
  arg_threshold,
  snap_output,      \* Option of [result, underflow], set once the call ran
  \* ---- what the specifications of single claims observe
  snapshot_tx,      \* per worker, its last NeedsSnapshot sender: "none" (no request
                    \* yet), "sent" (a snapshot was sent on it), "held" (by a task
                    \* awaiting the build) or "dropped"
  last_update,      \* Option of the UpdateMatchIndex event handled last
  revert_emitted,   \* whether a RevertToFollower of term current_term + 1 was handled
  leader_running,   \* whether the leader loop, and with it LeaderState, is alive
  failed,           \* entry indexes of the requests failed at the leader's exit
  peer_last_log_index, \* per peer, the last index of the log the peer really holds
  \* ---- the storage (MemStore) on its own
  log,                 \* MemStore.log: index -> entry, an entry being its payload
                       \* (Option of the membership config it carries)
  sm_last_applied_log, \* sm.last_applied_log.index
  sm_last_membership,  \* sm.last_membership (Option of EffectiveMembership)
  upto_index,          \* the argument of the last get_membership_from_log (Option)
  membership_output    \* what that call returned (Option), set once a call ran

core_vars == <<current_term, voted_for, current_leader, target_state, last_log_index,
               last_log_term, commit_index, membership, snapshot_state>>
leader_vars == <<nodes, non_voters, consensus_state, awaiting_committed, leader_metrics>>
storage_vars == <<hard_state, current_snapshot>>
chan_vars == <<repl_tx, snapshot_waiters>>
hist_vars == <<tx_sends, snapshot_builds, completed>>
raft_vars == <<core_vars, leader_vars, storage_vars, chan_vars, hist_vars>>
calc_vars == <<entries, current_commit, leader_term, new_val, calc_output>>
snap_vars == <<arg_snapshot_last_index, arg_last_log_index, arg_threshold, snap_output>>
store_vars == <<log, sm_last_applied_log, sm_last_membership, upto_index, membership_output>>
obs_vars == <<snapshot_tx, last_update, revert_emitted, leader_running, failed, peer_last_log_index>>

\* ------------------------------------------------------------- helpers
Min(a, b) == IF a <= b THEN a ELSE b

Range(s) == {s[i] : i \in 1..Len(s)}

\* All sequences over S of length at most n.
SeqsUpTo(S, n) == UNION {[1..k -> S] : k \in 0..n}

\* s with x inserted before position p (1..Len(s)+1).
InsertAt(s, p, x) == SubSeq(s, 1, p - 1) \o <<x>> \o SubSeq(s, p, Len(s))

\* --------------------------------------------------- quorum calculator
\* quorum::majority_of(n): floor(n/2) + 1.
majority_of(n) == (n \div 2) + 1

\* entries.sort_unstable_by(|a, b| a.0.cmp(&b.0)): the slice is ordered by
\* match_index alone and the order of elements with equal match_index is
\* not specified, so the result is any of the arrangements that an
\* insertion of each element among its equals can produce.
RECURSIVE sort_unstable_by_index(_)
sort_unstable_by_index(es) ==
  IF Len(es) = 0 THEN {<<>>}
  ELSE LET x == es[Len(es)]
           rest == sort_unstable_by_index(SubSeq(es, 1, Len(es) - 1))
       IN  UNION { { InsertAt(s, p, x) :
                       p \in { q \in 1..(Len(s) + 1) :
                                 /\ \A i \in 1..(q - 1) : s[i][1] <= x[1]
                                 /\ \A i \in q..Len(s) : x[1] <= s[i][1] } }
                   : s \in rest }

\* candidate_of with the offset taken as len / 2: the upper median.
candidate_of_upper_median(sorted) ==
  sorted[(Len(sorted) \div 2) + 1]

\* The local `new_val = entries[offset]` for one sorted arrangement
\* (Rust indexes from 0, TLA+ from 1).
candidate_of(sorted) ==
  LET majority == majority_of(Len(sorted))
      offset == Len(sorted) - majority
  IN  sorted[offset + 1]

\* return_of without the test of the candidate's term.
return_of_any_term(sorted, cur, lterm) ==
  LET nv == candidate_of(sorted)
  IN  IF nv[1] > cur THEN nv[1] ELSE cur

\* return_of without the test against current_commit.
return_of_no_floor(sorted, cur, lterm) ==
  LET nv == candidate_of(sorted)
  IN  IF nv[2] = lterm THEN nv[1] ELSE cur

\* The value returned for one sorted arrangement.
return_of(sorted, cur, lterm) ==
  LET nv == candidate_of(sorted)
  IN  IF nv[1] > cur /\ nv[2] = lterm THEN nv[1] ELSE cur

\* The executions of calculate_new_commit_index(entries, current_commit,
\* leader_term): one per arrangement the sort can leave, each with the local
\* new_val (None on the early return) and the value returned.
calculate_new_commit_index_runs(es, cur, lterm) ==
  IF Len(es) = 0 THEN {[new_val |-> {}, ret |-> cur]}
  ELSE { [new_val |-> {candidate_of(sorted)}, ret |-> return_of(sorted, cur, lterm)] :
           sorted \in sort_unstable_by_index(es) }

\* The values calculate_new_commit_index can return.
calculate_new_commit_index(es, cur, lterm) ==
  {run.ret : run \in calculate_new_commit_index_runs(es, cur, lterm)}

\* ------------------------------------------- snapshot-freshness predicate
\* u64 subtraction as the build performs it: the difference modulo the word
\* size, and whether it wrapped (a panic in a build with overflow checks).
sub_u64(a, b) == [value |-> (a - b) % WordSize, underflow |-> a < b]

\* snapshot_is_within_half_of_threshold without the guard of the subtraction.
snapshot_is_within_half_unguarded(snapshot_last_index, last_log_idx, threshold) ==
  LET d == sub_u64(last_log_idx, snapshot_last_index)
      half_of_threshold == threshold \div 2
  IN  [result |-> d.value <= half_of_threshold, underflow |-> d.underflow]

\* snapshot_is_within_half_of_threshold(snapshot_last_index, last_log_index,
\* threshold): the boolean returned, and whether the subtraction wrapped.
snapshot_is_within_half_of_threshold(snapshot_last_index, last_log_idx, threshold) ==
  LET d == IF snapshot_last_index > last_log_idx
             THEN [value |-> 0, underflow |-> FALSE]
             ELSE sub_u64(last_log_idx, snapshot_last_index)
      half_of_threshold == threshold \div 2
  IN  [result |-> d.value <= half_of_threshold, underflow |-> d.underflow]

\* ------------------------------------------------ leader state records
\* config.snapshot_policy = LogsSinceLast(threshold).
SnapshotThreshold == 2

\* spawn_replication_stream(target): the ReplicationState handle of a new
\* worker (the worker's own channel is repl_tx[target]).
spawn_replication_stream(target) ==
  [match_index |-> last_log_index,
   match_term |-> current_term,
   remove_after_commit |-> {}]

\* The ways of iterating a HashSet<NodeId>: every order of its elements.
iter_orders(node_ids) ==
  {s \in [1..Cardinality(node_ids) -> node_ids] : Range(s) = node_ids}

\* get_match_indexes without the lookup in non_voters of lines 267-271.
get_match_indexes_panics_nodes_only(node_ids, nds, nvs) ==
  \E id \in node_ids : id # LeaderId /\ id \notin DOMAIN nds

\* get_match_indexes panics when a node id is the leader's, a voter's and a
\* non-voter's none of the three.
get_match_indexes_panics(node_ids, nds, nvs) ==
  \E id \in node_ids : id # LeaderId /\ id \notin DOMAIN nds /\ id \notin DOMAIN nvs

\* The (match_index, match_term) of one node id, as get_match_indexes reads it.
match_of(id, nds, nvs) ==
  IF id = LeaderId THEN <<last_log_index, last_log_term>>
  ELSE IF id \in DOMAIN nds THEN <<nds[id].match_index, nds[id].match_term>>
  ELSE <<nvs[id].state.match_index, nvs[id].state.match_term>>

\* get_match_indexes(node_ids) over the tables nds and nvs: the vectors it can
\* return, one per iteration order of the set.
get_match_indexes(node_ids, nds, nvs) ==
  { [i \in 1..Len(order) |-> match_of(order[i], nds, nvs)] : order \in iter_orders(node_ids) }

\* calc_members_commit_index(mem, msg): the values it can return.
calc_members_commit_index(mem, nds, nvs) ==
  UNION { calculate_new_commit_index(indices, commit_index, current_term) :
            indices \in get_match_indexes(mem, nds, nvs) }

\* calc_commit_index taking the greater of the two quorums' results.
calc_commit_index_max(nds, nvs) ==
  LET c0 == calc_members_commit_index(membership.members, nds, nvs)
      c1 == UNION { calc_members_commit_index(members, nds, nvs) :
                      members \in membership.members_after_consensus }
  IN  IF membership.members_after_consensus = {}
        THEN c0
        ELSE { IF c0_index >= c1_index THEN c0_index ELSE c1_index :
                 c0_index \in c0, c1_index \in c1 }

\* calc_commit_index(): the values it can return over the tables nds and nvs.
calc_commit_index(nds, nvs) ==
  LET c0 == calc_members_commit_index(membership.members, nds, nvs)
      c1 == IF membership.members_after_consensus = {} THEN {}
            ELSE UNION { calc_members_commit_index(members, nds, nvs) :
                           members \in membership.members_after_consensus }
  IN  IF membership.members_after_consensus = {}
        THEN { Min(c0_index, c0_index) : c0_index \in c0 }
        ELSE { Min(c0_index, c1_index) : c0_index \in c0, c1_index \in c1 }

\* Whether calc_commit_index panics in get_match_indexes.
calc_commit_index_panics(nds, nvs) ==
  \/ get_match_indexes_panics(membership.members, nds, nvs)
  \/ \E members \in membership.members_after_consensus :
       get_match_indexes_panics(members, nds, nvs)

\* LogId::new(term, index): whether one of its two assert_eq! fails. They
\* are reached when term or index is zero, and ask for both to be zero.
LogId_new_panics(term, index) ==
  IF term = 0 \/ index = 0
    THEN index # 0 \/ term # 0
    ELSE FALSE

\* update_leader_metrics(target, match_term, match_index) on the map m.
update_leader_metrics(m, target, match_term, match_index) ==
  [n \in (DOMAIN m) \cup {target} |->
     IF n = target THEN [term |-> match_term, index |-> match_index] ELSE m[n]]

\* The empty HashMap.
EmptyMap == [n \in {} |-> {}]

\* f without the key k (HashMap::remove, BTreeMap::remove).
remove_key(f, k) == [n \in (DOMAIN f) \ {k} |-> f[n]]

\* repl_tx.send(msg) to every worker of `targets`; of each worker's channel
\* the model keeps the last event sent on it.
send_all(chans, targets, msg) ==
  [n \in DOMAIN chans |-> IF n \in targets THEN {msg} ELSE chans[n]]

\* ---------------------------------------------- collaborators of the core
\* ConsensusState::Uniform.
Uniform == [kind |-> "Uniform"]

\* sm.last_applied_log.index: the last entry applied for a completed request.
last_applied == IF Len(completed) = 0 THEN 0 ELSE completed[Len(completed)]

\* change_membership taking every new node for ready.
not_ready_to_join_unchecked(new_non_voters, nvs) == {}

\* The new nodes change_membership has to await: those with no non-voter
\* record or with is_ready_to_join false.
not_ready_to_join(new_non_voters, nvs) ==
  {n \in new_non_voters : ~(n \in DOMAIN nvs /\ nvs[n].is_ready_to_join)}

\* change_membership(members, tx), called with the non-voters table nvs:
\* the nodes to promote that are not ready are awaited in NonVoterSync;
\* with none to await the joint-consensus entry is appended.
change_membership(members, tx, nvs) ==
  LET new_non_voters == (members \ membership.members) \ {LeaderId}
      awaiting == not_ready_to_join(new_non_voters, nvs)
  IN  IF awaiting # {}
        THEN /\ consensus_state' = [kind |-> "NonVoterSync", awaiting |-> awaiting,
                                    members |-> members, tx |-> tx]
             /\ UNCHANGED <<membership, last_log_index, last_log_term, awaiting_committed>>
        ELSE /\ last_log_index < MaxIndex
             /\ consensus_state' = Uniform
             /\ membership' = [membership EXCEPT !.members_after_consensus = {members}]
             /\ last_log_index' = last_log_index + 1
             /\ last_log_term' = current_term
             /\ awaiting_committed' = Append(awaiting_committed, last_log_index + 1)

\* trigger_log_compaction_if_needed(true): a forced snapshot build starts.
trigger_log_compaction_if_needed ==
  /\ snapshot_state' = {"Snapshotting"}
  /\ snapshot_builds' = snapshot_builds + 1

\* ------------------------------------------------------ event handlers
\* state.tx.take() leaving the sender in the field.
take_tx_leaving_it(tx) == tx

\* state.tx.take(): what is left in the field (tx is whether the sender is
\* there).
take_tx(tx) == FALSE

\* awaiting.remove(&target) leaving the set as it was.
awaiting_kept(awaiting, target) == awaiting

\* awaiting.remove(&target), line 94.
awaiting_remove(awaiting, target) == awaiting \ {target}

\* The test of line 83 passing whatever the rate is.
ready_to_join_untested(is_line_rate) == TRUE

\* `if state.is_ready_to_join` at line 83, after line 81 stored is_line_rate.
ready_to_join(is_line_rate) == is_line_rate

\* handle_rate_update(target, is_line_rate).
handle_rate_update(target, is_line_rate) ==
  IF target \in DOMAIN nodes THEN UNCHANGED raft_vars
  ELSE IF target \notin DOMAIN non_voters THEN UNCHANGED raft_vars
  ELSE
    LET had_tx == non_voters[target].tx
        nvs == [non_voters EXCEPT ![target].is_ready_to_join = is_line_rate,
                                  ![target].tx = IF ready_to_join(is_line_rate) THEN take_tx(@) ELSE @]
    IN  /\ non_voters' = nvs
        /\ tx_sends' = IF ready_to_join(is_line_rate) /\ had_tx
                         THEN [tx_sends EXCEPT ![target] = @ + 1] ELSE tx_sends
        /\ IF ready_to_join(is_line_rate) /\ consensus_state.kind = "NonVoterSync"
             THEN LET awaiting == awaiting_remove(consensus_state.awaiting, target)
                  IN  IF awaiting = {}
                        THEN change_membership(consensus_state.members, consensus_state.tx, nvs)
                        ELSE /\ consensus_state' = [consensus_state EXCEPT !.awaiting = awaiting]
                             /\ UNCHANGED <<membership, last_log_index, last_log_term,
                                            awaiting_committed>>
             ELSE UNCHANGED <<consensus_state, membership, last_log_index, last_log_term,
                              awaiting_committed>>
        /\ UNCHANGED <<current_term, voted_for, current_leader, target_state, commit_index,
                       snapshot_state, nodes, leader_metrics, storage_vars, chan_vars,
                       snapshot_builds, completed>>

\* The test of line 114 accepting the leader's own term as well.
is_higher_term_or_equal(term) == term >= current_term

\* The test of line 114 asking for a term beyond the next one.
is_much_higher_term(term) == term > current_term + 1

\* The test `term > self.core.current_term` of line 114.
is_higher_term(term) == term > current_term

\* The `?` of line 116 not returning on an error.
save_error_ignored(save_ok) == TRUE

\* The `?` of line 116: the handler goes on only when the save returned Ok.
save_returned_ok(save_ok) == save_ok

\* self.core.save_hard_state() after update_current_term(term, None): the
\* hard state stored when the save succeeds.
save_hard_state(term) == [current_term |-> term, voted_for |-> {}]

\* handle_revert_to_follower(_, term); save_ok is whether save_hard_state
\* succeeds (a failure is mapped to a fatal storage error: Shutdown).
handle_revert_to_follower(target, term, save_ok) ==
  IF is_higher_term(term)
    THEN /\ current_term' = term
         /\ voted_for' = {}
         /\ hard_state' = IF save_ok THEN save_hard_state(term) ELSE hard_state
         /\ IF save_returned_ok(save_ok)
              THEN /\ current_leader' = {}
                   /\ target_state' = "Follower"
              ELSE /\ target_state' = "Shutdown"
                   /\ UNCHANGED current_leader
         /\ UNCHANGED <<last_log_index, last_log_term, commit_index, membership,
                        snapshot_state, leader_vars, current_snapshot, chan_vars, hist_vars>>
    ELSE UNCHANGED raft_vars

\* The `filter` of handle_update_match_index: the position (from 0) of the
\* last request of the queue's head run with entry.index <= commit index.
RECURSIVE take_while_len(_, _)
take_while_len(queue, ci) ==
  IF Len(queue) = 0 \/ queue[1] > ci THEN 0
  ELSE 1 + take_while_len(Tail(queue), ci)

\* The filter with take_while testing entry.index < commit index.
RECURSIVE take_while_lt_len(_, _)
take_while_lt_len(queue, ci) ==
  IF Len(queue) = 0 \/ queue[1] >= ci THEN 0
  ELSE 1 + take_while_lt_len(Tail(queue), ci)

drain_filter_lt(queue, ci) ==
  IF take_while_lt_len(queue, ci) = 0 THEN {} ELSE {take_while_lt_len(queue, ci) - 1}

drain_filter(queue, ci) ==
  IF take_while_len(queue, ci) = 0 THEN {} ELSE {take_while_len(queue, ci) - 1}

\* awaiting_committed.drain(..=offset): the requests drained, in order.
drained(queue, filter) ==
  IF filter = {} THEN <<>>
  ELSE LET offset == CHOOSE o \in filter : TRUE IN SubSeq(queue, 1, offset + 1)

\* The queue left by awaiting_committed.drain(..=offset).
after_drain(queue, filter) ==
  IF filter = {} THEN queue
  ELSE LET offset == CHOOSE o \in filter : TRUE IN SubSeq(queue, offset + 2, Len(queue))

\* new_core_commit_index storing the event's match_index.
new_core_commit_index_of_event(calc, match_index) == match_index

\* The value stored in self.core.commit_index when the calculated commit
\* index calc is a new one.
new_core_commit_index(calc, match_index) == calc

\* has_new_commit_index taking the commit index it already has for new.
has_new_or_same_commit_index(calc) == calc >= commit_index

\* has_new_commit_index.
has_new_commit_index(calc) == calc > commit_index

\* The test of line 143 asking for a match_index beyond the threshold.
passed_threshold(match_index, threshold) == match_index > threshold

\* `&match_index >= threshold`, line 143.
reached_threshold(match_index, threshold) == match_index >= threshold

\* `found` set whatever the lookups gave.
found_always(in_non_voters, in_nodes) == TRUE

\* `found` at line 149: set by either lookup (lines 131 and 140).
found_in(in_non_voters, in_nodes) == in_non_voters \/ in_nodes

\* The broadcast going over the voters table as it was before the removal.
broadcast_targets_before_removal(before, after, nvs) == (DOMAIN before) \cup (DOMAIN nvs)

\* The broadcast reaching the voters table only.
broadcast_targets_voters_only(before, after, nvs) == DOMAIN after

\* The workers of the two loops of lines 179-188: self.nodes.values(), read
\* after the removal of line 160, and self.non_voters.values().
broadcast_targets(before, after, nvs) == (DOMAIN after) \cup (DOMAIN nvs)

\* handle_update_match_index(target, match_index, match_term), in the runs
\* where calc_commit_index returns one of `returned`: the value depends on
\* the order self.core.membership is iterated in and on the order the unstable
\* sort leaves equal indexes in.
handle_update_match_index_run(target, match_index, match_term, returned) ==
  LET in_non_voters == target \in DOMAIN non_voters
      in_nodes == target \in DOMAIN nodes
      found == found_in(in_non_voters, in_nodes)
      nvs == IF in_non_voters
               THEN [non_voters EXCEPT ![target].state.match_index = match_index,
                                       ![target].state.match_term = match_term]
               ELSE non_voters
      nds1 == IF in_nodes
                THEN [nodes EXCEPT ![target].match_index = match_index,
                                   ![target].match_term = match_term]
                ELSE nodes
      needs_removal == /\ in_nodes
                       /\ \E threshold \in nodes[target].remove_after_commit :
                            reached_threshold(match_index, threshold)
      metrics1 == update_leader_metrics(leader_metrics, target, match_term, match_index)
      nds == IF needs_removal THEN remove_key(nds1, target) ELSE nds1
      metrics == IF needs_removal THEN remove_key(metrics1, target) ELSE metrics1
      chans == IF needs_removal
                 THEN send_all(repl_tx, {target}, [type |-> "Terminate"])
                 ELSE repl_tx
  IN  IF ~found THEN UNCHANGED raft_vars
      ELSE
        /\ non_voters' = nvs
        /\ nodes' = nds
        /\ leader_metrics' = metrics
        /\ IF calc_commit_index_panics(nds, nvs)
             THEN /\ target_state' = "Panicked"
                  /\ repl_tx' = chans
                  /\ UNCHANGED <<commit_index, awaiting_committed, completed>>
             ELSE \E calc \in calc_commit_index(nds, nvs) \cap returned :
                    IF has_new_commit_index(calc)
                      THEN LET ci == new_core_commit_index(calc, match_index)
                               filter == drain_filter(awaiting_committed, ci)
                           IN  /\ commit_index' = ci
                               /\ repl_tx' = send_all(chans, broadcast_targets(nds1, nds, nvs),
                                               [type |-> "UpdateCommitIndex",
                                                commit_index |-> ci])
                               /\ awaiting_committed' = after_drain(awaiting_committed, filter)
                               /\ completed' = completed \o drained(awaiting_committed, filter)
                               /\ UNCHANGED target_state
                      ELSE /\ repl_tx' = chans
                           /\ UNCHANGED <<commit_index, awaiting_committed, completed,
                                          target_state>>
        /\ UNCHANGED <<current_term, voted_for, current_leader, last_log_index,
                       last_log_term, membership, snapshot_state, consensus_state,
                       storage_vars, snapshot_waiters, tx_sends, snapshot_builds>>

\* handle_update_match_index(target, match_index, match_term), whatever
\* calc_commit_index returns.
handle_update_match_index(target, match_index, match_term) ==
  handle_update_match_index_run(target, match_index, match_term, Indexes)

\* The look at snapshot_state, line 313: whether a build is in progress.
build_in_progress_never == FALSE

build_in_progress == snapshot_state = {"Snapshotting"}

\* The `?` of line 298 not returning on an error.
get_error_ignored(get_ok) == TRUE

\* The `?` of line 298: the handler goes on only when get_current_snapshot
\* returned Ok.
get_returned_ok(get_ok) == get_ok

\* fresh_snapshot without the test of line 303.
any_snapshot == current_snapshot

\* The current snapshot if it passes the test of line 303 (Option).
fresh_snapshot ==
  {index \in current_snapshot :
     snapshot_is_within_half_of_threshold(index, last_log_index, SnapshotThreshold).result}

\* handle_needs_snapshot(_, tx) for the worker `target`; get_ok is whether
\* get_current_snapshot succeeds (a failure is mapped to a fatal storage
\* error: Shutdown).
handle_needs_snapshot(target, get_ok) ==
  IF ~get_returned_ok(get_ok)
    THEN /\ target_state' = "Shutdown"
         /\ UNCHANGED <<current_term, voted_for, current_leader, last_log_index,
                        last_log_term, commit_index, membership, snapshot_state,
                        leader_vars, storage_vars, chan_vars, hist_vars>>
  ELSE IF fresh_snapshot # {}
    THEN UNCHANGED raft_vars
  ELSE IF build_in_progress
    THEN /\ snapshot_waiters' = snapshot_waiters \cup {target}
         /\ snapshot_state' = snapshot_state
         /\ UNCHANGED <<current_term, voted_for, current_leader, target_state,
                        last_log_index, last_log_term, commit_index, membership,
                        leader_vars, storage_vars, repl_tx, hist_vars>>
  ELSE /\ trigger_log_compaction_if_needed
       /\ UNCHANGED <<current_term, voted_for, current_leader, target_state,
                      last_log_index, last_log_term, commit_index, membership,
                      leader_vars, storage_vars, chan_vars, tx_sends, completed>>

\* What handle_needs_snapshot does with its argument tx: a snapshot is sent
\* on it (line 304), it is moved into the task that awaits the build (lines
\* 315-318: "held"), or it goes out of scope as the handler returns (lines
\* 298 and 332-333: "dropped").
needs_snapshot_tx(get_ok) ==
  IF ~get_returned_ok(get_ok) THEN "dropped"
  ELSE IF fresh_snapshot # {} THEN "sent"
  ELSE IF build_in_progress THEN "held"
  ELSE "dropped"

\* The ReplicaEvent::Shutdown arm of handle_replica_event.
handle_shutdown ==
  /\ target_state' = "Shutdown"
  /\ UNCHANGED <<current_term, voted_for, current_leader, last_log_index,
                 last_log_term, commit_index, membership, snapshot_state,
                 leader_vars, storage_vars, chan_vars, hist_vars>>

\* ----------------------------------------- specification: the leader core
\* The state of a node that has just become leader: a stream spawned for
\* every other voter, nothing committed by this leader yet.
LeaderInit(members) ==
  /\ current_term = MaxTerm
  /\ voted_for = {LeaderId}
  /\ current_leader = {LeaderId}
  /\ target_state = "Leader"
  /\ last_log_index = 0
  /\ last_log_term = 0
  /\ commit_index = 0
  /\ membership = [members |-> members, members_after_consensus |-> {}]
  /\ snapshot_state = {}
  /\ nodes = [n \in membership.members \ {LeaderId} |-> spawn_replication_stream(n)]
  /\ non_voters = EmptyMap
  /\ consensus_state = Uniform
  /\ awaiting_committed = <<>>
  /\ leader_metrics = EmptyMap
  /\ hard_state = [current_term |-> current_term, voted_for |-> {LeaderId}]
  /\ current_snapshot = {}
  /\ repl_tx = [n \in Peers |-> {}]
  /\ snapshot_waiters = {}
  /\ tx_sends = [n \in Peers |-> 0]
  /\ snapshot_builds = 0
  /\ completed = <<>>

\* A new leader of a cluster of three or of two voters.
RaftInit == \E members \in {{1, 2, 3}, {1, 2}} : LeaderInit(members)

\* The leader loop hands events to handle_replica_event while the node is
\* the leader.
is_leader == target_state = "Leader"

\* The peers a replication stream was spawned for: those of the two tables,
\* and those whose stream was told to terminate when their record was dropped.
\* Replication events come from these workers only.
Workers ==
  {n \in Peers : \/ n \in DOMAIN nodes
                 \/ n \in DOMAIN non_voters
                 \/ repl_tx[n] = {[type |-> "Terminate"]}}

\* ReplicaEvent::RateUpdate { target, is_line_rate }.
RateUpdate ==
  /\ is_leader
  /\ \E target \in Workers, is_line_rate \in BOOLEAN :
       handle_rate_update(target, is_line_rate)

\* ReplicaEvent::RevertToFollower { target, term }.
RevertToFollower ==
  /\ is_leader
  /\ \E target \in Workers, term \in (current_term - 1)..(current_term + 1), save_ok \in BOOLEAN :
       handle_revert_to_follower(target, term, save_ok)

\* ReplicaEvent::UpdateMatchIndex { target, match_index, match_term }: a
\* worker reports a position of the leader's log.
UpdateMatchIndex ==
  /\ is_leader
  /\ \E target \in Workers, match_index \in 0..last_log_index, match_term \in 1..current_term :
       handle_update_match_index(target, match_index, match_term)

\* ReplicaEvent::NeedsSnapshot { target, tx }: a worker has one request
\* outstanding at a time.
NeedsSnapshot ==
  /\ is_leader
  /\ \E target \in Workers \ snapshot_waiters, get_ok \in BOOLEAN :
       handle_needs_snapshot(target, get_ok)

\* ReplicaEvent::Shutdown.
Shutdown ==
  /\ is_leader
  /\ handle_shutdown

\* A client write: the entry is appended in the leader's term and its
\* request joins the AwaitingCommit queue.
ClientWrite ==
  /\ is_leader
  /\ last_log_index < MaxIndex
  /\ last_log_index' = last_log_index + 1
  /\ last_log_term' = current_term
  /\ awaiting_committed' = Append(awaiting_committed, last_log_index + 1)
  /\ UNCHANGED <<current_term, voted_for, current_leader, target_state, commit_index,
                 membership, snapshot_state, nodes, non_voters, consensus_state,
                 leader_metrics, storage_vars, chan_vars, hist_vars>>

\* add_non_voter(target, tx): a PerNonVoter with tx stored, its worker spawned.
AddNonVoter ==
  /\ is_leader
  /\ \E target \in Peers \ Workers :
       /\ non_voters' = [n \in (DOMAIN non_voters) \cup {target} |->
                           IF n = target
                             THEN [state |-> spawn_replication_stream(target),
                                   is_ready_to_join |-> FALSE,
                                   tx |-> TRUE]
                             ELSE non_voters[n]]
  /\ UNCHANGED <<core_vars, nodes, consensus_state, awaiting_committed, leader_metrics,
                 storage_vars, chan_vars, hist_vars>>

\* The API call change_membership(new_members, tx), taken while no other
\* membership change is in flight.
ChangeMembership ==
  /\ is_leader
  /\ consensus_state = Uniform
  /\ membership.members_after_consensus = {}
  /\ \E members \in (SUBSET NodeIds) \ {{}} :
       /\ LeaderId \in members
       /\ members # membership.members
       /\ change_membership(members, "tx", non_voters)
  /\ UNCHANGED <<current_term, voted_for, current_leader, target_state, commit_index,
                 snapshot_state, nodes, non_voters, leader_metrics, storage_vars,
                 chan_vars, hist_vars>>

\* The joint-consensus entry is committed: the new voter set becomes the
\* membership and the final configuration entry is appended; the non-voters
\* the configuration names are promoted, their records moving to `nodes`, and
\* the voters it drops are marked remove_after_commit = final_config_index.
JointConsensusCommitted ==
  /\ is_leader
  /\ commit_index = last_log_index
  /\ last_log_index < MaxIndex
  /\ \E members \in membership.members_after_consensus :
       LET final_config_index == last_log_index + 1
           promoted == members \cap (DOMAIN non_voters)
           dropped == (DOMAIN nodes) \ members
       IN  /\ membership' = [members |-> members, members_after_consensus |-> {}]
           /\ nodes' = [n \in (DOMAIN nodes) \cup promoted |->
                          IF n \in promoted THEN non_voters[n].state
                          ELSE IF n \in dropped
                            THEN [nodes[n] EXCEPT !.remove_after_commit = {final_config_index}]
                          ELSE nodes[n]]
           /\ non_voters' = [n \in (DOMAIN non_voters) \ promoted |-> non_voters[n]]
           /\ last_log_index' = final_config_index
           /\ last_log_term' = current_term
           /\ awaiting_committed' = Append(awaiting_committed, final_config_index)
  /\ UNCHANGED <<current_term, voted_for, current_leader, target_state, commit_index,
                 snapshot_state, consensus_state, leader_metrics, storage_vars,
                 chan_vars, hist_vars>>

\* The running snapshot build ends: done (the snapshot of the applied state
\* becomes the current one) or cancelled; its broadcast wakes the tasks that
\* hold the waiting senders, which drop them.
SnapshotBuildDone ==
  /\ is_leader
  /\ snapshot_state = {"Snapshotting"}
  /\ snapshot_state' = {}
  /\ snapshot_builds' = snapshot_builds - 1
  /\ snapshot_waiters' = {}
  /\ \E done \in BOOLEAN :
       current_snapshot' = IF done THEN {last_applied} ELSE current_snapshot
  /\ UNCHANGED <<current_term, voted_for, current_leader, target_state, last_log_index,
                 last_log_term, commit_index, membership, leader_vars, hard_state,
                 repl_tx, tx_sends, completed>>

\* NeedsSnapshot with what became of its sender observed.
NeedsSnapshotTx(target, get_ok) ==
  /\ handle_needs_snapshot(target, get_ok)
  /\ snapshot_tx' = [snapshot_tx EXCEPT ![target] = needs_snapshot_tx(get_ok)]
  /\ UNCHANGED <<last_update, revert_emitted, leader_running, failed, peer_last_log_index>>

NeedsSnapshotObserved ==
  /\ is_leader
  /\ \E target \in Workers \ snapshot_waiters, get_ok \in BOOLEAN :
       NeedsSnapshotTx(target, get_ok)

\* The end of the build observed: the tasks spawned at lines 315-318 wake
\* from chan.recv() and drop the senders they hold.
SnapshotBuildDoneObserved ==
  /\ SnapshotBuildDone
  /\ snapshot_tx' = [n \in Peers |->
                       IF n \in snapshot_waiters THEN "dropped" ELSE snapshot_tx[n]]
  /\ UNCHANGED <<last_update, revert_emitted, leader_running, failed, peer_last_log_index>>

\* RevertToFollower with the handling of an event of term current_term + 1,
\* its hard state saved, noted.
RevertToFollowerObserved ==
  /\ is_leader
  /\ \E target \in Workers, term \in (current_term - 1)..(current_term + 1),
        save_ok \in BOOLEAN :
       /\ handle_revert_to_follower(target, term, save_ok)
       /\ revert_emitted' = (revert_emitted \/ (term = current_term + 1 /\ save_ok))
  /\ UNCHANGED <<snapshot_tx, last_update, leader_running, failed, peer_last_log_index>>

\* The workers the leader's teardown addresses: those of the two tables.
teardown_targets == (DOMAIN nodes) \cup (DOMAIN non_voters)

\* The leader loop finds the target state is no longer Leader and returns:
\* every worker is sent Terminate and the requests still awaiting their
\* commit are failed, the node being no longer the leader.
LeaderExit ==
  /\ leader_running
  /\ target_state \in {"Follower", "Shutdown"}
  /\ repl_tx' = send_all(repl_tx, teardown_targets, [type |-> "Terminate"])
  /\ failed' = awaiting_committed
  /\ awaiting_committed' = <<>>
  /\ leader_running' = FALSE
  /\ UNCHANGED <<core_vars, nodes, non_voters, consensus_state, leader_metrics,
                 storage_vars, snapshot_waiters, hist_vars, snapshot_tx, last_update,
                 revert_emitted, peer_last_log_index, calc_vars, snap_vars, store_vars>>

\* UpdateMatchIndex with the event noted, along with the commit index it
\* found and the value calc_commit_index returned while it was handled.
UpdateMatchIndexObserved ==
  /\ is_leader
  /\ \E target \in Workers, match_index \in 0..last_log_index,
        match_term \in 1..current_term, calc \in Indexes :
       /\ handle_update_match_index_run(target, match_index, match_term, {calc})
       /\ last_update' = {[target |-> target, match_index |-> match_index,
                           match_term |-> match_term, calc |-> calc,
                           commit_before |-> commit_index, replayed |-> FALSE]}
  /\ UNCHANGED <<snapshot_tx, revert_emitted, leader_running, failed, peer_last_log_index>>

\* The event handled last is handled once more, nothing having been handled
\* in between: the membership is iterated and the records are sorted in the
\* orders of the first handling, so calc_commit_index returns what it
\* returned then.
UpdateMatchIndexReplayed ==
  /\ is_leader
  /\ \E e \in last_update :
       /\ ~e.replayed
       /\ handle_update_match_index_run(e.target, e.match_index, e.match_term, {e.calc})
       /\ last_update' = {[e EXCEPT !.replayed = TRUE]}
  /\ UNCHANGED <<snapshot_tx, revert_emitted, leader_running, failed, peer_last_log_index>>

\* A worker takes the UpdateCommitIndex waiting on its channel.
WorkerReceives ==
  /\ \E n \in Peers :
       /\ \E msg \in repl_tx[n] : msg.type = "UpdateCommitIndex"
       /\ repl_tx' = [repl_tx EXCEPT ![n] = {}]
  /\ UNCHANGED <<core_vars, leader_vars, storage_vars, snapshot_waiters, hist_vars>>

\* Another operation of the leader comes after the event handled last.
ForgetUpdate ==
  /\ last_update' = {}
  /\ UNCHANGED <<snapshot_tx, revert_emitted, leader_running, failed, peer_last_log_index>>

\* The worker of peer n has one more entry of the leader's log stored on
\* its peer (an AppendEntries answered with success).
WorkerReplicates ==
  /\ is_leader
  /\ \E n \in (DOMAIN nodes) \cup (DOMAIN non_voters) :
       /\ peer_last_log_index[n] < last_log_index
       /\ peer_last_log_index' = [peer_last_log_index EXCEPT ![n] = @ + 1]
  /\ UNCHANGED <<snapshot_tx, last_update, revert_emitted, leader_running, failed>>
  /\ UNCHANGED raft_vars

\* UpdateMatchIndex from a worker that reports the position its peer holds.
UpdateMatchIndexReported ==
  /\ is_leader
  /\ \E target \in (DOMAIN nodes) \cup (DOMAIN non_voters), match_term \in 1..current_term :
       handle_update_match_index(target, peer_last_log_index[target], match_term)

\* ------------------------------------ specification: the calculator alone
CalcInit ==
  /\ entries \in SeqsUpTo(Indexes \X Terms, MaxLen)
  /\ current_commit \in Indexes
  /\ leader_term \in Terms
  /\ new_val = {}
  /\ calc_output = {}

\* One call of calculate_new_commit_index on the drawn arguments.
CalcCall ==
  /\ calc_output = {}
  /\ \E run \in calculate_new_commit_index_runs(entries, current_commit, leader_term) :
       /\ new_val' = run.new_val
       /\ calc_output' = {run.ret}
  /\ UNCHANGED <<entries, current_commit, leader_term>>

CalcIdle ==
  /\ entries = <<>>
  /\ current_commit = 0
  /\ leader_term = 1
  /\ new_val = {}
  /\ calc_output = {}

\* --------------------------------- specification: the predicate alone
SnapInit ==
  /\ arg_snapshot_last_index \in Words
  /\ arg_last_log_index \in Words
  /\ arg_threshold \in Words
  /\ snap_output = {}

\* One call of snapshot_is_within_half_of_threshold on the drawn arguments.
SnapCall ==
  /\ snap_output = {}
  /\ snap_output' = {snapshot_is_within_half_of_threshold(
                       arg_snapshot_last_index, arg_last_log_index, arg_threshold)}
  /\ UNCHANGED <<arg_snapshot_last_index, arg_last_log_index, arg_threshold>>

SnapIdle ==
  /\ arg_snapshot_last_index = 0
  /\ arg_last_log_index = 0
  /\ arg_threshold = 0
  /\ snap_output = {}

\* ------------------------------------- specification: the storage alone
\* MemStore::new(id): an empty log, a state machine that applied nothing.
StoreIdle ==
  /\ log = EmptyMap
  /\ sm_last_applied_log = 0
  /\ sm_last_membership = {}
  /\ upto_index = {}
  /\ membership_output = {}

\* The last index the storage may reach.
MaxLogIndex == 3

\* The membership configs an entry may carry, and self.id.
Configs == {{1, 2}, {1, 2, 3}}
MemStoreId == LeaderId

\* The payloads of an entry: Blank or Normal (no config), or Membership(cfg).
Payloads == {{}} \cup {{cfg} : cfg \in Configs}

\* log.values().rev(): the entries from the last index down.
RECURSIVE reversed_logs_from(_)
reversed_logs_from(indexes) ==
  IF indexes = {} THEN <<>>
  ELSE LET last == CHOOSE i \in indexes : \A j \in indexes : j <= i
       IN  <<log[last]>> \o reversed_logs_from(indexes \ {last})

reversed_logs == reversed_logs_from(DOMAIN log)

\* skip_while(|entry| entry.log_id.index > upto), line 184.
RECURSIVE skip_while_above(_, _)
skip_while_above(it, upto) ==
  IF Len(it) = 0 THEN it
  ELSE IF it[1].log_id.index > upto THEN skip_while_above(Tail(it), upto)
  ELSE it

\* find_first_membership_log(it): find_map returning the first entry of the
\* iterator that carries a membership config.
RECURSIVE find_first_membership_log(_)
find_first_membership_log(it) ==
  IF Len(it) = 0 THEN {}
  ELSE IF it[1].payload # {}
    THEN {[log_id |-> it[1].log_id,
           membership |-> CHOOSE cfg \in it[1].payload : TRUE]}
  ELSE find_first_membership_log(Tail(it))

\* a > b on two Option<u64>: None is below every Some.
option_gt(a, b) ==
  /\ a # {}
  /\ b = {} \/ \E x \in a, y \in b : x > y

\* `let (_, membership_in_sm) = self.last_applied_state().await?`, line 193:
\* sm.last_membership as it is, whatever upto_index.
membership_in_sm(upto_opt) == sm_last_membership

\* get_membership_from_log(upto_index).
get_membership_from_log(upto_opt) ==
  LET membership_in_log ==
        IF upto_opt # {}
          THEN LET upto == CHOOSE u \in upto_opt : TRUE
               IN  find_first_membership_log(skip_while_above(reversed_logs, upto))
          ELSE find_first_membership_log(reversed_logs)
      in_sm == membership_in_sm(upto_opt)
      found_membership ==
        IF option_gt({x.log_id.index : x \in membership_in_log},
                     {x.log_id.index : x \in in_sm})
          THEN membership_in_log
          ELSE in_sm
  IN  IF found_membership # {}
        THEN CHOOSE x \in found_membership : TRUE
        ELSE [log_id |-> [term |-> 0, index |-> 0], membership |-> {MemStoreId}]

\* The index after the last one the storage knows, in the log or applied.
next_log_index ==
  LET known == (DOMAIN log) \cup {sm_last_applied_log}
  IN  1 + CHOOSE i \in known : \A j \in known : j <= i

\* append_to_log(entries) with the entry that follows the last one.
AppendToLog ==
  /\ next_log_index <= MaxLogIndex
  /\ \E payload \in Payloads :
       log' = [i \in (DOMAIN log) \cup {next_log_index} |->
                 IF i = next_log_index
                   THEN [log_id |-> [term |-> 1, index |-> i], payload |-> payload]
                   ELSE log[i]]
  /\ UNCHANGED <<sm_last_applied_log, sm_last_membership, upto_index, membership_output>>

\* apply_to_state_machine(entries) with the entry after the last applied one.
ApplyToStateMachine ==
  /\ sm_last_applied_log + 1 \in DOMAIN log
  /\ LET entry == log[sm_last_applied_log + 1]
     IN  /\ sm_last_applied_log' = entry.log_id.index
         /\ sm_last_membership' =
              IF entry.payload # {}
                THEN {[log_id |-> entry.log_id,
                       membership |-> CHOOSE cfg \in entry.payload : TRUE]}
                ELSE sm_last_membership
  /\ UNCHANGED <<log, upto_index, membership_output>>

\* delete_logs_from(range): a prefix of applied entries is purged, or a
\* suffix of entries not applied is truncated.
DeleteLogsFrom ==
  /\ \E k \in 1..MaxLogIndex :
       LET range == IF k <= sm_last_applied_log THEN 1..k ELSE k..MaxLogIndex
       IN  /\ range \cap (DOMAIN log) # {}
           /\ log' = [i \in (DOMAIN log) \ range |-> log[i]]
  /\ UNCHANGED <<sm_last_applied_log, sm_last_membership, upto_index, membership_output>>

\* One call of get_membership_from_log.
GetMembershipFromLog ==
  /\ \E upto_opt \in {{}} \cup {{upto} : upto \in 0..MaxLogIndex} :
       /\ upto_index' = upto_opt
       /\ membership_output' = {get_membership_from_log(upto_opt)}
  /\ UNCHANGED <<log, sm_last_applied_log, sm_last_membership>>

\* The leader core at rest, for the specifications of the pure functions.
RaftIdle ==
  /\ current_term = 1
  /\ voted_for = {LeaderId}
  /\ current_leader = {LeaderId}
  /\ target_state = "Leader"
  /\ last_log_index = 0
  /\ last_log_term = 0
  /\ commit_index = 0
  /\ membership = [members |-> {1, 2}, members_after_consensus |-> {}]
  /\ snapshot_state = {}
  /\ nodes = [n \in {2} |-> spawn_replication_stream(n)]
  /\ non_voters = EmptyMap
  /\ consensus_state = Uniform
  /\ awaiting_committed = <<>>
  /\ leader_metrics = EmptyMap
  /\ hard_state = [current_term |-> 1, voted_for |-> {LeaderId}]
  /\ current_snapshot = {}
  /\ repl_tx = [n \in Peers |-> {}]
  /\ snapshot_waiters = {}
  /\ tx_sends = [n \in Peers |-> 0]
  /\ snapshot_builds = 0
  /\ completed = <<>>

\* Nothing observed yet: no NeedsSnapshot sender, no UpdateMatchIndex
\* handled, the leader loop alive.
ObsIdle ==
  /\ snapshot_tx = [n \in Peers |-> "none"]
  /\ last_update = {}
  /\ revert_emitted = FALSE
  /\ leader_running = TRUE
  /\ failed = <<>>
  /\ peer_last_log_index = [n \in Peers |-> 0]

vars == <<raft_vars, calc_vars, snap_vars, store_vars, obs_vars>>

Init == RaftInit /\ CalcIdle /\ SnapIdle /\ StoreIdle /\ ObsIdle

Next ==
  \/ RateUpdate /\ UNCHANGED <<calc_vars, snap_vars, store_vars, obs_vars>>
  \/ RevertToFollower /\ UNCHANGED <<calc_vars, snap_vars, store_vars, obs_vars>>
  \/ UpdateMatchIndex /\ UNCHANGED <<calc_vars, snap_vars, store_vars, obs_vars>>
  \/ NeedsSnapshot /\ UNCHANGED <<calc_vars, snap_vars, store_vars, obs_vars>>
  \/ Shutdown /\ UNCHANGED <<calc_vars, snap_vars, store_vars, obs_vars>>
  \/ ClientWrite /\ UNCHANGED <<calc_vars, snap_vars, store_vars, obs_vars>>
  \/ AddNonVoter /\ UNCHANGED <<calc_vars, snap_vars, store_vars, obs_vars>>
  \/ ChangeMembership /\ UNCHANGED <<calc_vars, snap_vars, store_vars, obs_vars>>
  \/ JointConsensusCommitted /\ UNCHANGED <<calc_vars, snap_vars, store_vars, obs_vars>>
  \/ SnapshotBuildDone /\ UNCHANGED <<calc_vars, snap_vars, store_vars, obs_vars>>

\* The leader core under every interleaving of replication events.
Spec == Init /\ [][Next]_vars

NextCommit ==
  \/ RateUpdate /\ UNCHANGED <<calc_vars, snap_vars, store_vars, obs_vars>>
  \/ RevertToFollower /\ UNCHANGED <<calc_vars, snap_vars, store_vars, obs_vars>>
  \/ UpdateMatchIndex /\ UNCHANGED <<calc_vars, snap_vars, store_vars, obs_vars>>
  \/ Shutdown /\ UNCHANGED <<calc_vars, snap_vars, store_vars, obs_vars>>
  \/ ClientWrite /\ UNCHANGED <<calc_vars, snap_vars, store_vars, obs_vars>>
  \/ AddNonVoter /\ UNCHANGED <<calc_vars, snap_vars, store_vars, obs_vars>>
  \/ ChangeMembership /\ UNCHANGED <<calc_vars, snap_vars, store_vars, obs_vars>>
  \/ JointConsensusCommitted /\ UNCHANGED <<calc_vars, snap_vars, store_vars, obs_vars>>

\* The leader core with no snapshot requested: replication, commit
\* advancement and membership changes.
SpecCommit == Init /\ [][NextCommit]_vars

NextSnapshot ==
  \/ NeedsSnapshot /\ UNCHANGED <<calc_vars, snap_vars, store_vars, obs_vars>>
  \/ SnapshotBuildDone /\ UNCHANGED <<calc_vars, snap_vars, store_vars, obs_vars>>
  \/ UpdateMatchIndex /\ UNCHANGED <<calc_vars, snap_vars, store_vars, obs_vars>>
  \/ ClientWrite /\ UNCHANGED <<calc_vars, snap_vars, store_vars, obs_vars>>
  \/ RevertToFollower /\ UNCHANGED <<calc_vars, snap_vars, store_vars, obs_vars>>
  \/ Shutdown /\ UNCHANGED <<calc_vars, snap_vars, store_vars, obs_vars>>

\* The leader core with a fixed membership: replication, commit advancement
\* and snapshot requests.
SpecSnapshot == Init /\ [][NextSnapshot]_vars

InitMembership == LeaderInit({LeaderId}) /\ CalcIdle /\ SnapIdle /\ StoreIdle /\ ObsIdle

NextMembership ==
  \/ AddNonVoter /\ UNCHANGED <<calc_vars, snap_vars, store_vars, obs_vars>>
  \/ RateUpdate /\ UNCHANGED <<calc_vars, snap_vars, store_vars, obs_vars>>
  \/ ChangeMembership /\ UNCHANGED <<calc_vars, snap_vars, store_vars, obs_vars>>
  \/ UpdateMatchIndex /\ UNCHANGED <<calc_vars, snap_vars, store_vars, obs_vars>>
  \/ ClientWrite /\ UNCHANGED <<calc_vars, snap_vars, store_vars, obs_vars>>
  \/ JointConsensusCommitted /\ UNCHANGED <<calc_vars, snap_vars, store_vars, obs_vars>>

\* A leader that starts as the only voter: non-voters are added, brought to
\* the line rate and promoted by membership changes.
SpecMembership == InitMembership /\ [][NextMembership]_vars

NextSnapshotTx ==
  \/ NeedsSnapshotObserved /\ UNCHANGED <<calc_vars, snap_vars, store_vars>>
  \/ SnapshotBuildDoneObserved /\ UNCHANGED <<calc_vars, snap_vars, store_vars>>
  \/ UpdateMatchIndex /\ UNCHANGED <<calc_vars, snap_vars, store_vars, obs_vars>>
  \/ ClientWrite /\ UNCHANGED <<calc_vars, snap_vars, store_vars, obs_vars>>
  \/ RevertToFollower /\ UNCHANGED <<calc_vars, snap_vars, store_vars, obs_vars>>
  \/ Shutdown /\ UNCHANGED <<calc_vars, snap_vars, store_vars, obs_vars>>

\* SpecSnapshot with the sender of every NeedsSnapshot followed.
SpecSnapshotTx == Init /\ [][NextSnapshotTx]_vars

\* A worker asks for a snapshot, again after each sender that was dropped.
NeedsSnapshotRetry(target) ==
  /\ is_leader
  /\ target \in Workers \ snapshot_waiters
  /\ NeedsSnapshotTx(target, TRUE)
  /\ UNCHANGED <<calc_vars, snap_vars, store_vars>>

\* The running build ends with its snapshot written.
SnapshotBuildCompleted ==
  /\ SnapshotBuildDoneObserved
  /\ current_snapshot' = {last_applied}
  /\ UNCHANGED <<calc_vars, snap_vars, store_vars>>

NextSnapshotRetry ==
  \/ \E target \in Peers : NeedsSnapshotRetry(target)
  \/ SnapshotBuildCompleted
  \/ UpdateMatchIndex /\ UNCHANGED <<calc_vars, snap_vars, store_vars, obs_vars>>
  \/ ClientWrite /\ UNCHANGED <<calc_vars, snap_vars, store_vars, obs_vars>>

\* A leader that stays leader, with a storage that never fails: every
\* worker goes on asking for a snapshot and every build runs to its end.
SpecSnapshotRetry ==
  /\ Init
  /\ [][NextSnapshotRetry]_vars
  /\ \A target \in Peers : WF_vars(NeedsSnapshotRetry(target))
  /\ WF_vars(SnapshotBuildCompleted)

NextStepDown ==
  \/ RevertToFollowerObserved /\ UNCHANGED <<calc_vars, snap_vars, store_vars>>
  \/ LeaderExit
  \/ UpdateMatchIndex /\ UNCHANGED <<calc_vars, snap_vars, store_vars, obs_vars>>
  \/ ClientWrite /\ UNCHANGED <<calc_vars, snap_vars, store_vars, obs_vars>>
  \/ AddNonVoter /\ UNCHANGED <<calc_vars, snap_vars, store_vars, obs_vars>>

\* The leader core until it leaves the leader role: the leader loop looks at
\* the target state after every event, so its exit is not put off for ever.
SpecStepDown ==
  /\ Init
  /\ [][NextStepDown]_vars
  /\ WF_vars(LeaderExit)

NextReplay ==
  \/ UpdateMatchIndexObserved /\ UNCHANGED <<calc_vars, snap_vars, store_vars>>
  \/ UpdateMatchIndexReplayed /\ UNCHANGED <<calc_vars, snap_vars, store_vars>>
  \/ WorkerReceives /\ UNCHANGED <<calc_vars, snap_vars, store_vars, obs_vars>>
  \/ ClientWrite /\ ForgetUpdate /\ UNCHANGED <<calc_vars, snap_vars, store_vars>>
  \/ ChangeMembership /\ ForgetUpdate /\ UNCHANGED <<calc_vars, snap_vars, store_vars>>
  \/ JointConsensusCommitted /\ ForgetUpdate /\ UNCHANGED <<calc_vars, snap_vars, store_vars>>

\* The leader core with every UpdateMatchIndex event liable to be handled a
\* second time, and the workers emptying their channels.
SpecReplay == Init /\ [][NextReplay]_vars

NextBroadcast ==
  \/ UpdateMatchIndex /\ UNCHANGED <<calc_vars, snap_vars, store_vars, obs_vars>>
  \/ WorkerReceives /\ UNCHANGED <<calc_vars, snap_vars, store_vars, obs_vars>>
  \/ ClientWrite /\ UNCHANGED <<calc_vars, snap_vars, store_vars, obs_vars>>
  \/ AddNonVoter /\ UNCHANGED <<calc_vars, snap_vars, store_vars, obs_vars>>
  \/ ChangeMembership /\ UNCHANGED <<calc_vars, snap_vars, store_vars, obs_vars>>
  \/ JointConsensusCommitted /\ UNCHANGED <<calc_vars, snap_vars, store_vars, obs_vars>>

\* The leader core with voters and non-voters reporting their positions and
\* the workers emptying their channels, so that every send is seen.
SpecBroadcast == Init /\ [][NextBroadcast]_vars

NextPeerLog ==
  \/ WorkerReplicates /\ UNCHANGED <<calc_vars, snap_vars, store_vars>>
  \/ UpdateMatchIndexReported /\ UNCHANGED <<calc_vars, snap_vars, store_vars, obs_vars>>
  \/ ClientWrite /\ UNCHANGED <<calc_vars, snap_vars, store_vars, obs_vars>>
  \/ AddNonVoter /\ UNCHANGED <<calc_vars, snap_vars, store_vars, obs_vars>>
  \/ RateUpdate /\ UNCHANGED <<calc_vars, snap_vars, store_vars, obs_vars>>
  \/ ChangeMembership /\ UNCHANGED <<calc_vars, snap_vars, store_vars, obs_vars>>
  \/ JointConsensusCommitted /\ UNCHANGED <<calc_vars, snap_vars, store_vars, obs_vars>>

\* The leader core next to the logs of its peers: every peer starts with an
\* empty log, gains entries through its worker, and the worker reports the
\* position the peer holds.
SpecPeerLog == Init /\ [][NextPeerLog]_vars

NextStore ==
  \/ AppendToLog /\ UNCHANGED <<raft_vars, calc_vars, snap_vars, obs_vars>>
  \/ ApplyToStateMachine /\ UNCHANGED <<raft_vars, calc_vars, snap_vars, obs_vars>>
  \/ DeleteLogsFrom /\ UNCHANGED <<raft_vars, calc_vars, snap_vars, obs_vars>>
  \/ GetMembershipFromLog /\ UNCHANGED <<raft_vars, calc_vars, snap_vars, obs_vars>>

InitStore == StoreIdle /\ RaftIdle /\ CalcIdle /\ SnapIdle /\ ObsIdle

\* The storage under appends, applies, purges and truncations, asked for the
\* membership at every point.
SpecStore == InitStore /\ [][NextStore]_vars

CalcNext == CalcCall /\ UNCHANGED <<raft_vars, snap_vars, store_vars, obs_vars>>

InitCalc == CalcInit /\ RaftIdle /\ SnapIdle /\ StoreIdle /\ ObsIdle

\* calculate_new_commit_index on every bounded argument list.
SpecCalc == InitCalc /\ [][CalcNext]_vars

SnapNext == SnapCall /\ UNCHANGED <<raft_vars, calc_vars, store_vars, obs_vars>>

InitSnap == SnapInit /\ RaftIdle /\ CalcIdle /\ StoreIdle /\ ObsIdle

\* snapshot_is_within_half_of_threshold on every argument of the word.
SpecSnap == InitSnap /\ [][SnapNext]_vars

\* ------------------------------------------------------------ properties
\* The (match_index, match_term) recorded for a node id.
MatchRecord(id) == match_of(id, nodes, non_voters)

\* The voter sets in force: members and, in joint consensus, the new set.
VoterSets == {membership.members} \cup membership.members_after_consensus

\* Whether every node of the voter sets has a record to read.
VotersKnown ==
  \A S \in VoterSets : \A id \in S :
    id = LeaderId \/ id \in DOMAIN nodes \/ id \in DOMAIN non_voters

\* The majority-replicated index of a voter set: the largest index that
\* floor(N/2)+1 of its nodes have recorded.
MajorityIndex(S) ==
  LET reached(i) == Cardinality({id \in S : MatchRecord(id)[1] >= i})
                      >= (Cardinality(S) \div 2) + 1
  IN  CHOOSE i \in 0..MaxIndex :
        reached(i) /\ \A j \in (i + 1)..MaxIndex : ~reached(j)

StrictlyAscending(s) == \A i \in 1..(Len(s) - 1) : s[i] < s[i + 1]

\* C1: commit_index never decreases from one state of the leader core to the
\* next, whatever replication event is processed.
C1_CommitIndexNeverDecreases == [][commit_index' >= commit_index]_vars

\* The commit index stands above every voter's recorded match_index: the
\* records fell after the commit.
C1_Witness ==
  /\ is_leader
  /\ commit_index > 0
  /\ DOMAIN nodes # {}
  /\ \A n \in DOMAIN nodes : nodes[n].match_index < commit_index

\* C2: when commit_index is raised, every voter set in force has a node
\* whose record is the set's majority-replicated index with the leader's
\* current term, and the new commit_index is one of these indexes.
C2_CommitOnlyCurrentTerm ==
  [][commit_index' > commit_index =>
       /\ \A S \in VoterSets' :
            /\ MajorityIndex(S)' >= commit_index'
            /\ \E id \in S : MatchRecord(id)' = <<MajorityIndex(S)', current_term'>>
       /\ \E S \in VoterSets' : MajorityIndex(S)' = commit_index']_vars

\* The commit index was raised in joint consensus while a voter holds a
\* record of a prior term.
C2_Witness ==
  /\ is_leader
  /\ commit_index > 0
  /\ membership.members_after_consensus # {}
  /\ \E n \in DOMAIN nodes : nodes[n].match_term < current_term

\* C3: in every leader state commit_index is at most the majority-replicated
\* index over members and, in joint consensus, over members_after_consensus.
C3_CommitWithinMajority ==
  (is_leader /\ VotersKnown) => \A S \in VoterSets : commit_index <= MajorityIndex(S)

\* C4: handle_update_match_index computes the calculator's result over
\* members alone, or the lesser of its results over members and over
\* members_after_consensus, and stores it exactly when it exceeds the
\* commit_index; an event for an unknown target leaves commit_index alone.
C4_JointMinimum ==
  [][\A target \in Peers, match_index \in Indexes, match_term \in Terms :
       (is_leader /\ handle_update_match_index(target, match_index, match_term)
          /\ target_state' = "Leader") =>
         IF target \in (DOMAIN nodes) \cup (DOMAIN non_voters)
           THEN \E c0 \in calc_members_commit_index(membership.members, nodes', non_voters') :
                  LET c1s == IF membership.members_after_consensus = {} THEN {c0}
                             ELSE UNION { calc_members_commit_index(m, nodes', non_voters') :
                                            m \in membership.members_after_consensus }
                  IN  \E c1 \in c1s :
                        commit_index' = IF Min(c0, c1) > commit_index
                                          THEN Min(c0, c1) ELSE commit_index
           ELSE commit_index' = commit_index]_vars

\* In joint consensus the old set's majority is at 2, the new set's at 1,
\* and the commit index was raised to 1.
C4_Witness ==
  /\ is_leader
  /\ membership.members_after_consensus # {}
  /\ VotersKnown
  /\ MajorityIndex(membership.members) = 2
  /\ \A S \in membership.members_after_consensus : MajorityIndex(S) = 1
  /\ commit_index = 1

\* The arrangements of es in ascending order of match_index.
SortedArrangements(es) ==
  { s \in [1..Len(es) -> Range(es)] :
      /\ \A i \in 1..(Len(es) - 1) : s[i][1] <= s[i + 1][1]
      /\ \A e \in Range(es) :
           Cardinality({i \in 1..Len(es) : s[i] = e})
             = Cardinality({i \in 1..Len(es) : es[i] = e}) }

\* C5: calculate_new_commit_index returns a value >= current_commit: with the
\* entries in ascending order of match_index and candidate = entries[N -
\* (floor(N/2)+1)], it returns the candidate's index if that exceeds
\* current_commit and the candidate's term is leader_term, and current_commit
\* otherwise; for empty entries it returns current_commit.
C5_CalculateNewCommitIndex ==
  \A out \in calc_output :
    /\ out >= current_commit
    /\ IF Len(entries) = 0 THEN out = current_commit
       ELSE \E s \in SortedArrangements(entries) :
              LET N == Len(entries)
                  candidate == s[(N - ((N \div 2) + 1)) + 1]
              IN  /\ new_val = {candidate}
                  /\ out = IF candidate[1] > current_commit /\ candidate[2] = leader_term
                             THEN candidate[1] ELSE current_commit

\* Three entries, and the call returned an index above current_commit.
C5_Witness ==
  /\ Len(entries) = 3
  /\ \E out \in calc_output : out > current_commit

\* C6: for non-empty entries the candidate's index is the largest index that
\* at least floor(N/2)+1 of the N entries have reached; with an even N and
\* exactly half of the entries at x and half below, x is not the candidate,
\* and with one more entry at x it is.
C6_CandidateIsMajorityIndex ==
  \A nv \in new_val :
    LET N == Len(entries)
        count(i) == Cardinality({k \in 1..N : entries[k][1] >= i})
    IN  /\ count(nv[1]) >= (N \div 2) + 1
        /\ \A i \in Indexes : i > nv[1] => count(i) < (N \div 2) + 1
        /\ \A x \in Indexes :
             /\ (N % 2 = 0 /\ count(x) = N \div 2 /\ count(x + 1) = 0) => nv[1] < x
             /\ (N % 2 = 1 /\ count(x) = (N \div 2) + 1 /\ count(x + 1) = 0) => nv[1] = x

\* Two entries, one at index 2 and one below, and the candidate was chosen.
C6_Witness ==
  /\ Len(entries) = 2
  /\ {entries[k][1] : k \in 1..Len(entries)} = {0, 2}
  /\ new_val # {}

\* C7: snapshot_is_within_half_of_threshold returns true exactly when
\* max(last_log_index - snapshot_last_index, 0) <= floor(threshold / 2), and
\* its subtraction never wraps.
C7_WithinHalfOfThreshold ==
  \A out \in snap_output :
    LET diff == arg_last_log_index - arg_snapshot_last_index
        distance == IF diff > 0 THEN diff ELSE 0
    IN  /\ out.result <=> (distance <= arg_threshold \div 2)
        /\ ~out.underflow
        /\ arg_snapshot_last_index > arg_last_log_index => out.result

\* The predicate was evaluated on a snapshot ahead of the log, with a
\* threshold whose half is less than the wrapped difference.
C7_Witness ==
  /\ snap_output # {}
  /\ arg_snapshot_last_index > arg_last_log_index
  /\ (arg_last_log_index - arg_snapshot_last_index) % WordSize > arg_threshold \div 2

\* C8: a non-voter's completion tx is sent on at most once; it is sent on
\* only by a RateUpdate with is_line_rate = true, and the first such event
\* for the non-voter sends on it.
C8_TxSentAtMostOnce ==
  [][\A n \in Peers :
       /\ tx_sends'[n] <= 1
       /\ tx_sends'[n] # tx_sends[n] => handle_rate_update(n, TRUE)
       /\ (is_leader /\ n \in DOMAIN non_voters /\ n \notin DOMAIN nodes
             /\ tx_sends[n] = 0 /\ handle_rate_update(n, TRUE)) => tx_sends'[n] = 1]_vars

\* A non-voter whose tx was sent on and which has since fallen behind the
\* line rate again.
C8_Witness ==
  \E n \in DOMAIN non_voters :
    /\ tx_sends[n] = 1
    /\ ~non_voters[n].is_ready_to_join
    /\ ~non_voters[n].tx

\* C9: at most one snapshot build is active; a build is started only when
\* none is in progress, and handle_needs_snapshot with a build in progress
\* leaves snapshot_state as it is and starts no build.
C9_AtMostOneSnapshotBuild ==
  [][/\ snapshot_builds' <= 1
     /\ snapshot_builds' > snapshot_builds => snapshot_state = {} /\ snapshot_builds = 0
     /\ \A target \in Peers, get_ok \in BOOLEAN :
          (is_leader /\ snapshot_state = {"Snapshotting"}
             /\ handle_needs_snapshot(target, get_ok)) =>
            /\ snapshot_state' = snapshot_state
            /\ snapshot_builds' = snapshot_builds]_vars

\* A build is active and a worker that asked during it waits for its end.
C9_Witness ==
  /\ snapshot_builds = 1
  /\ snapshot_state = {"Snapshotting"}
  /\ snapshot_waiters # {}

\* C10: when handle_update_match_index advances commit_index to c, exactly
\* the queued requests with index <= c are removed and completed, in
\* strictly ascending order; those with index > c stay queued in their
\* order, so no queued request has index <= commit_index afterwards.
C10_DrainUpToCommit ==
  [][\A target \in Peers, match_index \in Indexes, match_term \in Terms :
       (is_leader /\ handle_update_match_index(target, match_index, match_term)
          /\ commit_index' > commit_index) =>
         LET le(i) == i <= commit_index'
             gt(i) == i > commit_index'
         IN  /\ completed' = completed \o SelectSeq(awaiting_committed, le)
             /\ awaiting_committed' = SelectSeq(awaiting_committed, gt)
             /\ StrictlyAscending(completed')
             /\ \A i \in Range(awaiting_committed') : i > commit_index']_vars

\* The request at index 1 was completed by a commit at 1 while the request
\* at index 2 stays queued.
C10_Witness ==
  /\ is_leader
  /\ commit_index = 1
  /\ completed = <<1>>
  /\ awaiting_committed = <<2>>

\* C12: a peer record's match_index, in the voters or the non-voters table,
\* never decreases while the leader stays in its term: an event carrying a
\* lower match_index does not lower the record.
C12_MatchIndexNeverDecreases ==
  [][current_term' = current_term =>
       \A n \in Peers :
         (n \in (DOMAIN nodes) \cup (DOMAIN non_voters)
            /\ n \in (DOMAIN nodes') \cup (DOMAIN non_voters')) =>
           MatchRecord(n)'[1] >= MatchRecord(n)[1]]_vars

\* C13: RevertToFollower{term} with term > current_term, the save
\* succeeding, sets current_term to term, clears voted_for, saves the hard
\* state, marks the leader unknown and sets the target role to Follower;
\* with term <= current_term it changes none of them.  current_term never
\* decreases.
C13_RevertToFollower ==
  [][/\ current_term' >= current_term
     /\ \A target \in Peers, term \in 0..(MaxTerm + 1) :
          (is_leader /\ handle_revert_to_follower(target, term, TRUE)) =>
            IF term > current_term
              THEN /\ current_term' = term
                   /\ voted_for' = {}
                   /\ hard_state' = [current_term |-> term, voted_for |-> {}]
                   /\ current_leader' = {}
                   /\ target_state' = "Follower"
              ELSE UNCHANGED <<current_term, voted_for, current_leader, target_state,
                               hard_state>>]_vars

\* The leader stepped down to the term above its own, which is saved.
C13_Witness ==
  /\ target_state = "Follower"
  /\ current_term = MaxTerm + 1
  /\ voted_for = {}
  /\ current_leader = {}
  /\ hard_state = [current_term |-> MaxTerm + 1, voted_for |-> {}]

\* C16: the hard state with the new term is saved before the role changes
\* to Follower, and no event is handled between the update of the term and
\* the end of the save: in every state where the node is a Follower by this
\* path, or is a leader handling events, the saved current_term and
\* voted_for are those in memory.
C16_SaveBeforeTransition ==
  target_state \in {"Leader", "Follower"} =>
    /\ hard_state.current_term = current_term
    /\ hard_state.voted_for = voted_for

\* The node stepped down with requests still queued, the new term saved.
C16_Witness ==
  /\ target_state = "Follower"
  /\ current_term > MaxTerm
  /\ hard_state.current_term = current_term
  /\ awaiting_committed # <<>>

\* C20: UpdateMatchIndex for a voter whose record has remove_after_commit =
\* Some(w) and match_index >= w sends Terminate to its worker, removes its
\* record from the voters table and leaves no entry for it in the
\* replication metrics; with match_index < w, or with remove_after_commit =
\* None, the record, its watermark and the worker are kept.
C20_RemoveAfterCommit ==
  [][\A target \in Peers, match_index \in Indexes, match_term \in Terms :
       (is_leader /\ target \in DOMAIN nodes
          /\ handle_update_match_index(target, match_index, match_term)) =>
         IF \E w \in nodes[target].remove_after_commit : match_index >= w
           THEN /\ target \notin DOMAIN nodes'
                /\ target \notin DOMAIN leader_metrics'
                /\ repl_tx'[target] = {[type |-> "Terminate"]}
           ELSE /\ target \in DOMAIN nodes'
                /\ nodes'[target].remove_after_commit = nodes[target].remove_after_commit
                /\ nodes'[target].match_index = match_index
                /\ target \in DOMAIN leader_metrics'
                /\ repl_tx'[target] # {[type |-> "Terminate"]}]_vars

\* A voter dropped by the new configuration reported the watermark: its
\* worker was told to terminate, its record and metrics entry are gone, and
\* another voter below a watermark is not.
C20_Witness ==
  /\ is_leader
  /\ \E n \in Peers :
       /\ repl_tx[n] = {[type |-> "Terminate"]}
       /\ n \notin DOMAIN nodes
       /\ n \notin DOMAIN leader_metrics
  /\ leader_metrics # EmptyMap

\* The nodes of `members` that are not voters and not ready to join.
NotReady(members) ==
  {n \in (members \ membership.members) \ {LeaderId} :
     ~(n \in DOMAIN non_voters /\ non_voters[n].is_ready_to_join)}

\* C15: change_membership(new_members, tx) called while a new member is not
\* ready makes the state NonVoterSync with awaiting exactly the not-ready
\* nodes; RateUpdate{X, true} for a non-voter X removes X from awaiting;
\* when awaiting empties, change_membership runs from the Uniform state with
\* the recorded members and tx, and otherwise the state stays NonVoterSync
\* with the same members and tx.  No other RateUpdate changes the state.
C15_NonVoterSync ==
  [][/\ \A members \in SUBSET NodeIds :
          (is_leader /\ consensus_state = Uniform /\ NotReady(members) # {}
             /\ UNCHANGED non_voters
             /\ change_membership(members, "tx", non_voters)) =>
            consensus_state' = [kind |-> "NonVoterSync", awaiting |-> NotReady(members),
                                members |-> members, tx |-> "tx"]
     /\ \A X \in Peers, is_line_rate \in BOOLEAN :
          (is_leader /\ handle_rate_update(X, is_line_rate)) =>
            IF /\ is_line_rate
               /\ X \in DOMAIN non_voters
               /\ X \notin DOMAIN nodes
               /\ consensus_state.kind = "NonVoterSync"
              THEN IF consensus_state.awaiting \ {X} = {}
                     THEN change_membership(consensus_state.members, consensus_state.tx,
                                            non_voters')
                     ELSE consensus_state' =
                            [kind |-> "NonVoterSync",
                             awaiting |-> consensus_state.awaiting \ {X},
                             members |-> consensus_state.members,
                             tx |-> consensus_state.tx]
              ELSE UNCHANGED <<consensus_state, membership, last_log_index>>]_vars

\* The change to {1, 2, 3} waits for node 3 alone: node 2 has reached the
\* line rate and its tx was sent on.
C15_Witness ==
  /\ consensus_state.kind = "NonVoterSync"
  /\ consensus_state.awaiting = {3}
  /\ consensus_state.members = {1, 2, 3}
  /\ 2 \in DOMAIN non_voters
  /\ non_voters[2].is_ready_to_join
  /\ tx_sends[2] = 1

\* C17: a storage error in a handler ends in Shutdown: a failing
\* save_hard_state in handle_revert_to_follower leaves the node in Shutdown
\* and not in Follower; a failing get_current_snapshot in
\* handle_needs_snapshot leaves it in Shutdown with no snapshot sent on tx
\* and no build triggered; a Shutdown event sets the target state to
\* Shutdown.
C17_StorageErrorShutsDown ==
  [][/\ \A target \in Peers, term \in 0..(MaxTerm + 1) :
          (is_leader /\ term > current_term
             /\ handle_revert_to_follower(target, term, FALSE)) =>
            target_state' = "Shutdown"
     /\ \A target \in Peers :
          (is_leader /\ NeedsSnapshotTx(target, FALSE)) =>
            /\ target_state' = "Shutdown"
            /\ snapshot_tx'[target] = "dropped"
            /\ UNCHANGED <<snapshot_state, snapshot_builds, snapshot_waiters>>
     /\ (is_leader /\ handle_shutdown) => target_state' = "Shutdown"]_vars

\* The snapshot lookup failed although a fresh snapshot exists: the node is
\* in Shutdown and the worker's sender was dropped.
C17_Witness ==
  /\ target_state = "Shutdown"
  /\ fresh_snapshot # {}
  /\ \E n \in Peers : snapshot_tx[n] = "dropped"
  /\ hard_state.current_term = current_term

\* C18: handle_needs_snapshot sends a snapshot on tx only when a current
\* snapshot exists and lies within half of the threshold of last_log_index;
\* otherwise tx is dropped without a value, at once when a build is
\* triggered and when the build ends if one was in progress, so every sender
\* is answered with a fresh snapshot or closed.
C18_SnapshotSentOnlyWhenFresh ==
  [][/\ \A target \in Peers :
          (is_leader /\ NeedsSnapshotTx(target, TRUE)) =>
            LET fresh == \E index \in current_snapshot :
                           \/ index > last_log_index
                           \/ last_log_index - index <= SnapshotThreshold \div 2
            IN  /\ snapshot_tx'[target] = "sent" <=> fresh
                /\ snapshot_tx'[target] = "held" <=>
                     (~fresh /\ snapshot_state = {"Snapshotting"})
                /\ snapshot_tx'[target] = "dropped" <=>
                     (~fresh /\ snapshot_state = {})
                /\ (~fresh /\ snapshot_state = {}) => snapshot_builds' = snapshot_builds + 1
                /\ fresh => UNCHANGED <<snapshot_state, snapshot_builds>>
     /\ \A n \in Peers :
          /\ snapshot_tx'[n] = "held" => snapshot_state' = {"Snapshotting"}
          /\ (snapshot_tx[n] = "held" /\ snapshot_state' = {}) => snapshot_tx'[n] = "dropped"
          /\ (snapshot_tx[n] = "held" /\ snapshot_tx'[n] = "sent") => FALSE]_vars

\* One worker was sent the current snapshot; the log has since moved beyond
\* half of the threshold and the other worker's sender was dropped.
C18_Witness ==
  /\ is_leader
  /\ \E n \in Peers : snapshot_tx[n] = "sent"
  /\ \E n \in Peers : snapshot_tx[n] = "dropped"
  /\ current_snapshot # {}
  /\ fresh_snapshot = {}



\* C11: handling the same UpdateMatchIndex event a second time in a row
\* leaves the leader state as the first handling left it: the records, the
\* commit index, the workers' channels (no second UpdateCommitIndex, no second
\* Terminate), the AwaitingCommit queue and the completed requests.
C11_ReplayIsIdempotent ==
  [][(\E e \in last_update :
        ~e.replayed /\ last_update' = {[e EXCEPT !.replayed = TRUE]})
       => raft_vars' = raft_vars]_vars

\* An event whose first handling advanced the commit index and completed a
\* request was handled again after its worker had taken the UpdateCommitIndex.
C11_Witness ==
  \E e \in last_update :
    /\ e.replayed
    /\ e.commit_before < commit_index
    /\ e.calc = commit_index
    /\ Len(completed) > 0
    /\ repl_tx[e.target] = {}

\* C14: once a RevertToFollower of term current_term + 1 has been handled and
\* the node steps down, the leader's exit follows, after which every worker
\* of the two tables has Terminate as its last event, no request is left in
\* AwaitingCommit, and every request written is either among the completed
\* ones or among those failed at the exit, never both.
C14_StepDownTearsDown ==
  revert_emitted ~>
    (/\ ~leader_running
     /\ \A n \in teardown_targets : repl_tx[n] = {[type |-> "Terminate"]}
     /\ awaiting_committed = <<>>
     /\ Range(failed) \cap Range(completed) = {}
     /\ Range(failed) \cup Range(completed) = 1..last_log_index)

\* The leader of a voter and a non-voter stepped down with a request pending:
\* the request was failed.
C14_Witness ==
  /\ revert_emitted
  /\ target_state = "Follower"
  /\ ~leader_running
  /\ DOMAIN nodes # {}
  /\ DOMAIN non_voters # {}
  /\ Len(failed) > 0
  /\ Len(completed) > 0

\* C19: a worker that asked for a snapshot while a build was in progress has
\* its sender dropped when the build ends, asks again and is then sent the
\* snapshot that was built: a worker that keeps asking is eventually sent a
\* snapshot.
C19_RetryIsAnswered ==
  \A n \in Peers : (snapshot_tx[n] = "held") ~> (snapshot_tx[n] = "sent")

\* A peer with no record in the voters table nor in the non-voters table.
no_record(n) == n \notin (DOMAIN nodes) \cup (DOMAIN non_voters)

\* C21: a worker that was sent Terminate is sent nothing after it: a peer
\* left without a record has Terminate as the last event of its channel, also
\* at the end of the handler that removed it and advanced the commit index;
\* Terminate stays the last event whatever is handled later, and an
\* UpdateMatchIndex or a RateUpdate coming from that worker changes nothing.
C21_NothingAfterTerminate ==
  [][/\ \A n \in Peers :
          (n \notin (DOMAIN nodes') \cup (DOMAIN non_voters')) =>
            repl_tx'[n] \subseteq {[type |-> "Terminate"]}
     /\ \A n \in Peers :
          repl_tx[n] = {[type |-> "Terminate"]} =>
            repl_tx'[n] = {[type |-> "Terminate"]}
     /\ \A n \in Peers, match_index \in Indexes, match_term \in Terms :
          (is_leader /\ no_record(n) /\ repl_tx[n] = {[type |-> "Terminate"]}
             /\ handle_update_match_index(n, match_index, match_term)) =>
            UNCHANGED raft_vars
     /\ \A n \in Peers, is_line_rate \in BOOLEAN :
          (is_leader /\ no_record(n) /\ repl_tx[n] = {[type |-> "Terminate"]}
             /\ handle_rate_update(n, is_line_rate)) =>
            UNCHANGED raft_vars]_vars

\* The handler that removed a voter advanced the commit index as well: the
\* removed worker holds Terminate, a remaining worker the new commit index.
C21_Witness ==
  /\ is_leader
  /\ commit_index > 0
  /\ \E n \in Peers : no_record(n) /\ repl_tx[n] = {[type |-> "Terminate"]}
  /\ \E n \in Peers :
       repl_tx[n] = {[type |-> "UpdateCommitIndex", commit_index |-> commit_index]}

\* The UpdateCommitIndex event carrying commit index ci.
UpdateCommitIndexOf(ci) == [type |-> "UpdateCommitIndex", commit_index |-> ci]

\* C22: a handle_update_match_index that advances commit_index leaves
\* UpdateCommitIndex with the new commit index on the channel of every worker
\* of the two tables, and one that does not advance it sends no
\* UpdateCommitIndex; the commit index sent to a worker is greater than the
\* one sent to it before, and an UpdateCommitIndex waiting on the channel of
\* a worker of the tables carries the leader's commit_index.
C22_BroadcastOnAdvance ==
  [][/\ \A n \in Peers, match_index \in Indexes, match_term \in Terms :
          (is_leader /\ handle_update_match_index(n, match_index, match_term)) =>
            IF commit_index' > commit_index
              THEN \A w \in (DOMAIN nodes') \cup (DOMAIN non_voters') :
                     repl_tx'[w] = {UpdateCommitIndexOf(commit_index')}
              ELSE \A w \in Peers :
                     \/ repl_tx'[w] = repl_tx[w]
                     \/ repl_tx'[w] = {[type |-> "Terminate"]}
     /\ \A w \in Peers, ci \in Indexes, before \in Indexes :
          (repl_tx'[w] = {UpdateCommitIndexOf(ci)}
             /\ repl_tx[w] = {UpdateCommitIndexOf(before)}) => ci >= before
     /\ \A w \in (DOMAIN nodes') \cup (DOMAIN non_voters'), ci \in Indexes :
          repl_tx'[w] = {UpdateCommitIndexOf(ci)} => ci = commit_index']_vars

\* A voter and a non-voter both hold the commit index of the last advance,
\* the second one this leader made.
C22_Witness ==
  /\ is_leader
  /\ commit_index = MaxIndex
  /\ \E v \in DOMAIN nodes : repl_tx[v] = {UpdateCommitIndexOf(commit_index)}
  /\ \E nv \in DOMAIN non_voters : repl_tx[nv] = {UpdateCommitIndexOf(commit_index)}

\* C23: an UpdateMatchIndex whose target has a record in neither table
\* changes nothing: the records, the replication metrics, commit_index, the
\* AwaitingCommit queue and the workers' channels stay as they were.
C23_UnknownTargetIsNoOp ==
  [][\A target \in Peers, match_index \in Indexes, match_term \in Terms :
       (is_leader /\ no_record(target)
          /\ handle_update_match_index(target, match_index, match_term)) =>
         /\ UNCHANGED <<nodes, non_voters, leader_metrics, commit_index,
                        awaiting_committed, completed, repl_tx>>
         /\ UNCHANGED raft_vars]_vars

\* A worker whose record was removed may still report, while requests wait
\* and other workers have metrics.
C23_Witness ==
  /\ is_leader
  /\ \E target \in Workers : no_record(target)
  /\ Len(awaiting_committed) > 0
  /\ last_log_index > commit_index

\* C24: the match_index recorded for a peer, voter or non-voter, is not
\* beyond the last index of the log the peer holds, from the creation of the
\* record on.
C24_MatchIndexIsReplicated ==
  /\ \A n \in DOMAIN nodes : nodes[n].match_index <= peer_last_log_index[n]
  /\ \A n \in DOMAIN non_voters :
       non_voters[n].state.match_index <= peer_last_log_index[n]

\* C25: a RateUpdate for a voter changes nothing; a RateUpdate(true) for a
\* non-voter in the Uniform state leaves the state Uniform and appends no
\* configuration entry; a RateUpdate(false) for a non-voter sets its
\* is_ready_to_join to false and nothing else, no tx being sent and awaiting
\* staying as it is; ConsensusState changes only on a RateUpdate(true) for a
\* non-voter handled in NonVoterSync.
C25_RateUpdateFrame ==
  [][\A target \in Peers, is_line_rate \in BOOLEAN :
       (is_leader /\ handle_rate_update(target, is_line_rate)) =>
         /\ target \in DOMAIN nodes => UNCHANGED raft_vars
         /\ (target \in DOMAIN non_voters /\ target \notin DOMAIN nodes
               /\ is_line_rate /\ consensus_state = Uniform) =>
              /\ consensus_state' = Uniform
              /\ UNCHANGED <<membership, last_log_index, awaiting_committed>>
         /\ (target \in DOMAIN non_voters /\ target \notin DOMAIN nodes
               /\ ~is_line_rate) =>
              /\ non_voters' = [non_voters EXCEPT ![target].is_ready_to_join = FALSE]
              /\ UNCHANGED <<core_vars, nodes, consensus_state, awaiting_committed,
                             leader_metrics, storage_vars, chan_vars, hist_vars>>
         /\ consensus_state' # consensus_state =>
              /\ consensus_state.kind = "NonVoterSync"
              /\ is_line_rate
              /\ target \in DOMAIN non_voters]_vars

\* In NonVoterSync a non-voter that had reached the line rate, its tx sent,
\* has fallen back below it while another one is still awaited, next to a
\* voter.
C25_Witness ==
  /\ is_leader
  /\ consensus_state.kind = "NonVoterSync"
  /\ DOMAIN nodes # {}
  /\ \E n \in DOMAIN non_voters :
       /\ ~non_voters[n].is_ready_to_join
       /\ tx_sends[n] = 1
       /\ n \notin consensus_state.awaiting

C27_MembershipUpTo ==
  \A m \in membership_output :
    /\ \A upto \in upto_index : m.log_id.index <= upto
    /\ ((\A i \in DOMAIN log : log[i].payload = {}) /\ sm_last_membership = {}) =>
         m = [log_id |-> [term |-> 0, index |-> 0], membership |-> {MemStoreId}]

\* C28: a handle_update_match_index that reaches calc_commit_index finds
\* every node id of membership.members and of members_after_consensus to be
\* the leader's or to have a record in one of the two tables as they are
\* after the removal of lines 159-166, and get_match_indexes does not panic.
C28_NoPanicInGetMatchIndexes ==
  [][\A target \in Peers, match_index \in Indexes, match_term \in Terms :
       (is_leader /\ ~no_record(target)
          /\ handle_update_match_index(target, match_index, match_term)) =>
         /\ target_state' = "Leader"
         /\ \A S \in VoterSets : \A id \in S :
              id = LeaderId \/ id \in DOMAIN nodes' \/ id \in DOMAIN non_voters']_vars

\* A voter the configuration dropped was removed on reaching its watermark,
\* and the leader goes on with the voters left.
C28_Witness ==
  /\ is_leader
  /\ membership.members_after_consensus = {}
  /\ \E n \in Peers :
       /\ n \notin membership.members
       /\ no_record(n)
       /\ repl_tx[n] = {[type |-> "Terminate"]}
  /\ DOMAIN nodes # {}

\* The sequences that hold the entries of es in some order.
PermutationsOf(es) ==
  { s \in [1..Len(es) -> Range(es)] :
      \A e \in Range(es) :
        Cardinality({i \in 1..Len(es) : s[i] = e})
          = Cardinality({i \in 1..Len(es) : es[i] = e}) }

\* C29: the value calculate_new_commit_index returned for entries is the one
\* it returns for every permutation of them, with the same current_commit
\* and leader_term, and the only one.
C29_FunctionOfTheMultiset ==
  \A out \in calc_output :
    \A perm \in PermutationsOf(entries) :
      calculate_new_commit_index(perm, current_commit, leader_term) = {out}

\* C30: when the joint-consensus entry is appended, every node of the new
\* voter set that is not a voter yet has a non-voter record with
\* is_ready_to_join true at that moment, in a change started by the call as
\* in one resumed by a RateUpdate from NonVoterSync.
C30_JointEntryOnlyWhenReady ==
  [][(membership.members_after_consensus = {}
        /\ membership'.members_after_consensus # {}) =>
       \A members \in membership'.members_after_consensus :
         \A n \in (members \ membership.members) \ {LeaderId} :
           /\ n \in DOMAIN non_voters'
           /\ non_voters'[n].is_ready_to_join]_vars

\* The change to {1, 2, 3} was resumed when node 3, the last one awaited,
\* reached the line rate; node 2, which had left awaiting and then fell
\* below the line rate, is awaited again and no entry was appended.
C30_Witness ==
  /\ is_leader
  /\ consensus_state.kind = "NonVoterSync"
  /\ consensus_state.awaiting = {2}
  /\ consensus_state.members = {1, 2, 3}
  /\ membership.members = {LeaderId}
  /\ membership.members_after_consensus = {}
  /\ tx_sends[2] = 1
  /\ tx_sends[3] = 1
  /\ ~non_voters[2].is_ready_to_join
  /\ non_voters[3].is_ready_to_join
====
